---------------------------- MODULE Spec2Model ----------------------------
(***************************************************************************)
(* Model of the alert-triage core of the security dashboard:               *)
(*   - AlertAnalyzer (the rule-based risk classifier),                     *)
(*   - useAlertMonitoring (the Coordinator hook of SecurityAnalystView and *)
(*     ManagerView: seen-set, bounded notification list, read tracking),   *)
(*   - the dashboard's realtime-database listeners and data generators     *)
(*     that feed the hook.                                                 *)
(* Time is in milliseconds, as Date.now().                                 *)
(***************************************************************************)
EXTENDS Integers, Sequences, FiniteSets, TLC

(***************************************************************************)
(* Sequence helpers (the JS array operations the code uses).               *)
(***************************************************************************)
Min(a, b) == IF a <= b THEN a ELSE b

Range(s) == {s[i] : i \in 1..Len(s)}

\* Array.prototype.slice(0, n)
SliceHead(s, n) == SubSeq(s, 1, Min(n, Len(s)))

\* Array.prototype.slice(-n), also what limitToLast(n) keeps of a key-ordered node
SliceTail(s, n) == SubSeq(s, Len(s) - Min(n, Len(s)) + 1, Len(s))

\* Array.prototype.filter(P).length, given the set of indices that satisfy P
FilterLength(indices) == Cardinality(indices)

\* Array.prototype.reduce((sum, t) => sum + t.inbound, 0)
RECURSIVE SumInbound(_)
SumInbound(s) == IF s = <<>> THEN 0 ELSE Head(s).inbound + SumInbound(Tail(s))

(***************************************************************************)
(* AlertAnalyzer: thresholds and vocabularies set by the constructor.      *)
(***************************************************************************)
highSeverityBurst == 3
criticalTimeWindow == 300000
blockedAttemptsBurst == 10
trafficSpikeMultiplier == 3
cpuThreshold == 90
memoryThreshold == 90

\* this.criticalTypes, lower-cased as isCriticalAlertType compares them
criticalTypes ==
  {"ddos attack", "data breach attempt", "ransomware alert", "system compromise",
   "unauthorized root access", "critical service down", "database connection lost",
   "firewall disabled", "multiple system failures"}

\* this.systemImpactKeywords (already lower case in the source)
systemImpactKeywords ==
  {"system down", "service unavailable", "complete failure", "network outage",
   "database crashed", "critical error", "all users affected", "widespread impact",
   "infrastructure failure", "total loss"}

\* String.prototype.toLowerCase on the strings of the model's vocabulary
ToLowerCase(s) ==
  CASE s = "DDoS Attack" -> "ddos attack"
    [] s = "Port Scanning" -> "port scanning"
    [] s = "High Latency Warning" -> "high latency warning"
    [] s = "Massive DDOS ATTACK wave" -> "massive ddos attack wave"
    [] s = "Abnormal traffic spike detected from single source IP" ->
         "abnormal traffic spike detected from single source ip"
    [] s = "Core router: System Down" -> "core router: system down"
    [] s = "User experiencing high latency" -> "user experiencing high latency"
    [] OTHER -> s

\* String.prototype.includes on the lower-cased strings of the vocabulary
Includes(hay, needle) ==
  \/ hay = needle
  \/ <<hay, needle>> \in {<<"massive ddos attack wave", "ddos attack">>,
                          <<"core router: system down", "system down">>}

\* a faulty variant: severity high alone reaches the medium priority
severityScoreRaised(severity) ==
  CASE severity = "high" -> 35
    [] severity = "medium" -> 10
    [] OTHER -> 5

\* severityScore[newAlert.severity] || 5
severityScore(severity) ==
  CASE severity = "high" -> 25
    [] severity = "medium" -> 10
    [] severity = "low" -> 5
    [] OTHER -> 5

\* (Date.now() - x.timestamp) < this.thresholds.criticalTimeWindow
InWindow(x, t) == (t - x.timestamp) < criticalTimeWindow

\* latest.cpu_usage > threshold: a missing field is undefined, and undefined > n is false
FieldAbove(rec, f, n) == f \in DOMAIN rec /\ rec[f] > n

\* a faulty variant: a high connection count lowers the score
calculateRiskFactorsLoadLowers(newAlert, recentAlerts, systemStats, trafficData, blockedAttempts, t) ==
  LET HighRecent(a) == a.severity = "high" /\ InWindow(a, t)
      BlockedRecent(b) == InWindow(b, t)
      recentHighSeverity == FilterLength({i \in 1..Len(recentAlerts) : HighRecent(recentAlerts[i])})
      recentBlocked == FilterLength({i \in 1..Len(blockedAttempts) : BlockedRecent(blockedAttempts[i])})
      latest == trafficData[1]
      \* latest.inbound > average * 3, with average = sum / length
      spike == latest.inbound * Len(trafficData) >
                 SumInbound(trafficData) * trafficSpikeMultiplier
  IN  severityScore(newAlert.severity)
      + (IF recentHighSeverity >= highSeverityBurst THEN 20 ELSE 0)
      - (IF systemStats.activeConnections > 500 THEN 10 ELSE 0)
      + (IF recentBlocked >= blockedAttemptsBurst THEN 15 ELSE 0)
      + (IF Len(trafficData) > 0
           THEN (IF spike THEN 15 ELSE 0)
                + (IF FieldAbove(latest, "cpu_usage", cpuThreshold) THEN 10 ELSE 0)
                + (IF FieldAbove(latest, "memory_usage", memoryThreshold) THEN 10 ELSE 0)
           ELSE 0)

calculateRiskFactors(newAlert, recentAlerts, systemStats, trafficData, blockedAttempts, t) ==
  LET HighRecent(a) == a.severity = "high" /\ InWindow(a, t)
      BlockedRecent(b) == InWindow(b, t)
      recentHighSeverity == FilterLength({i \in 1..Len(recentAlerts) : HighRecent(recentAlerts[i])})
      recentBlocked == FilterLength({i \in 1..Len(blockedAttempts) : BlockedRecent(blockedAttempts[i])})
      latest == trafficData[1]
      \* latest.inbound > average * 3, with average = sum / length
      spike == latest.inbound * Len(trafficData) >
                 SumInbound(trafficData) * trafficSpikeMultiplier
  IN  severityScore(newAlert.severity)
      + (IF recentHighSeverity >= highSeverityBurst THEN 20 ELSE 0)
      + (IF systemStats.activeConnections > 500 THEN 10 ELSE 0)
      + (IF recentBlocked >= blockedAttemptsBurst THEN 15 ELSE 0)
      + (IF Len(trafficData) > 0
           THEN (IF spike THEN 15 ELSE 0)
                + (IF FieldAbove(latest, "cpu_usage", cpuThreshold) THEN 10 ELSE 0)
                + (IF FieldAbove(latest, "memory_usage", memoryThreshold) THEN 10 ELSE 0)
           ELSE 0)

isCriticalAlertType(alert) ==
  \E ty \in criticalTypes : Includes(ToLowerCase(alert.type), ty)

hasSystemWideImpact(alert) ==
  \E kw \in systemImpactKeywords : Includes(ToLowerCase(alert.message), kw)

\* rec.f, where a missing property reads as undefined
Field(rec, f) == IF f \in DOMAIN rec THEN rec[f] ELSE "undefined"

\* a faulty variant: alerts of any type count towards the burst
detectAlertBurstAnyType(newAlert, recentAlerts, t) ==
  LET n == FilterLength({i \in 1..Len(recentAlerts) : InWindow(recentAlerts[i], t)})
  IN  [isBurst |-> n >= 3, count |-> n, timeWindow |-> criticalTimeWindow]

detectAlertBurst(newAlert, recentAlerts, t) ==
  LET Similar(a) == Field(a, "type") = newAlert.type /\ InWindow(a, t)
      n == FilterLength({i \in 1..Len(recentAlerts) : Similar(recentAlerts[i])})
  IN  [isBurst |-> n >= 3, count |-> n, timeWindow |-> criticalTimeWindow]

analyzeSystemResources(systemStats, trafficData) ==
  IF Len(trafficData) = 0
    THEN [critical |-> FALSE, reason |-> <<>>, riskIncrease |-> 0, affectedSystems |-> <<>>]
    ELSE
      LET latest == trafficData[1]
          cpu == FieldAbove(latest, "cpu_usage", cpuThreshold)
          mem == FieldAbove(latest, "memory_usage", memoryThreshold)
          loss == FieldAbove(latest, "packet_loss", 5)
      IN  [critical |-> cpu \/ mem \/ loss,
           \* the ' | '-joined reason string, as the list of its parts
           reason |-> (IF cpu THEN <<"Critical CPU usage">> ELSE <<>>)
                      \o (IF mem THEN <<"Critical memory usage">> ELSE <<>>)
                      \o (IF loss THEN <<"High packet loss">> ELSE <<>>),
           riskIncrease |-> (IF cpu THEN 15 ELSE 0) + (IF mem THEN 15 ELSE 0)
                            + (IF loss THEN 10 ELSE 0),
           affectedSystems |-> (IF cpu THEN <<"CPU Resources">> ELSE <<>>)
                               \o (IF mem THEN <<"Memory Resources">> ELSE <<>>)
                               \o (IF loss THEN <<"Network">> ELSE <<>>)]

detectCoordinatedAttack(newAlert, recentAlerts, blockedAttempts, t) ==
  LET recentTime == t - criticalTimeWindow
      Sec(a) == a.severity \in {"high", "medium"} /\ a.timestamp > recentTime
      Blk(b) == b.timestamp > recentTime
      recentSecurityAlerts == FilterLength({i \in 1..Len(recentAlerts) : Sec(recentAlerts[i])})
      recentBlocked == FilterLength({i \in 1..Len(blockedAttempts) : Blk(blockedAttempts[i])})
      totalEvents == recentSecurityAlerts + (recentBlocked \div 3)
  IN  [detected |-> totalEvents >= 8,
       alerts |-> recentSecurityAlerts,
       blocked |-> recentBlocked,
       confidence |-> IF totalEvents > 12 THEN "high" ELSE "medium"]

calculateImpactLevel(riskScore) ==
  IF riskScore >= 80 THEN "critical"
  ELSE IF riskScore >= 60 THEN "high"
  ELSE IF riskScore >= 40 THEN "medium"
  ELSE "low"

\* a faulty variant: the critical band starts at 55
calculatePriorityEarlyCritical(riskScore) ==
  IF riskScore >= 55 THEN "critical"
  ELSE IF riskScore >= 35 THEN "medium"
  ELSE "low"

\* a faulty variant: the thresholds taken as exclusive
calculatePriorityExclusive(riskScore) ==
  IF riskScore > 75 THEN "critical"
  ELSE IF riskScore > 55 THEN "high"
  ELSE IF riskScore > 35 THEN "medium"
  ELSE "low"

calculatePriority(riskScore) ==
  IF riskScore >= 75 THEN "critical"
  ELSE IF riskScore >= 55 THEN "high"
  ELSE IF riskScore >= 35 THEN "medium"
  ELSE "low"

\* a faulty variant: the cap left out
calculateDowntimeRiskUncapped(riskScore, resourceAnalysis) ==
  riskScore * 6 + (IF resourceAnalysis.critical THEN 300 ELSE 0)

\* Math.min(((riskScore / 100) * 0.6 + (critical ? 0.3 : 0)) * 100, 95),
\* in tenths of a percent so that the value stays an integer
calculateDowntimeRisk(riskScore, resourceAnalysis) ==
  Min(riskScore * 6 + (IF resourceAnalysis.critical THEN 300 ELSE 0), 950)

generateRecommendation(priority) ==
  CASE priority = "critical" -> "IMMEDIATE ACTION REQUIRED"
    [] priority = "high" -> "HIGH PRIORITY"
    [] priority = "medium" -> "MONITOR CLOSELY"
    [] OTHER -> "STANDARD RESPONSE"

\* a faulty variant: the threshold taken as exclusive
requiresPopupStrict(riskScore, priority) == riskScore > 60 \/ priority = "critical"

\* analysis.requiresPopup = analysis.riskScore >= 60 || analysis.priority === 'critical'
requiresPopupRule(riskScore, priority) == riskScore >= 60 \/ priority = "critical"

\* the conditions under which analyzeAlert adds to the score, by the name of the factor
\* (factors.* in calculateRiskFactors, the if-statements of analyzeAlert, and the three
\* tests of analyzeSystemResources)
FactorConditions(newAlert, recentAlerts, systemStats, trafficData, blockedAttempts, t) ==
  LET latest == trafficData[1]
      has == Len(trafficData) > 0
  IN  {f \in {"highSeverityBurst"} :
         FilterLength({i \in 1..Len(recentAlerts) :
                         recentAlerts[i].severity = "high" /\ InWindow(recentAlerts[i], t)})
           >= highSeverityBurst}
      \cup {f \in {"highLoad"} : systemStats.activeConnections > 500}
      \cup {f \in {"blockedBurst"} :
               FilterLength({i \in 1..Len(blockedAttempts) : InWindow(blockedAttempts[i], t)})
                 >= blockedAttemptsBurst}
      \cup {f \in {"trafficSpike"} :
               has /\ latest.inbound * Len(trafficData)
                        > SumInbound(trafficData) * trafficSpikeMultiplier}
      \cup {f \in {"highCpu"} : has /\ FieldAbove(latest, "cpu_usage", cpuThreshold)}
      \cup {f \in {"highMemory"} : has /\ FieldAbove(latest, "memory_usage", memoryThreshold)}
      \cup {f \in {"packetLoss"} : has /\ FieldAbove(latest, "packet_loss", 5)}
      \cup {f \in {"criticalType"} : isCriticalAlertType(newAlert)}
      \cup {f \in {"systemWide"} : hasSystemWideImpact(newAlert)}
      \cup {f \in {"alertBurst"} : detectAlertBurst(newAlert, recentAlerts, t).isBurst}
      \cup {f \in {"coordinatedAttack"} :
               detectCoordinatedAttack(newAlert, recentAlerts, blockedAttempts, t).detected}

\* what a factor adds to the score when its condition holds: CPU and memory count in
\* calculateRiskFactors (10) and in analyzeSystemResources (15)
FactorWeight(f) ==
  CASE f = "highSeverityBurst" -> 20
    [] f = "highLoad" -> 10
    [] f = "blockedBurst" -> 15
    [] f = "trafficSpike" -> 15
    [] f = "highCpu" -> 10 + 15
    [] f = "highMemory" -> 10 + 15
    [] f = "packetLoss" -> 10
    [] f = "criticalType" -> 30
    [] f = "systemWide" -> 25
    [] f = "alertBurst" -> 20
    [] f = "coordinatedAttack" -> 25

\* the sum of the weights of a set of factors
RECURSIVE SumWeights(_)
SumWeights(fs) ==
  IF fs = {} THEN 0
  ELSE LET f == CHOOSE x \in fs : TRUE IN FactorWeight(f) + SumWeights(fs \ {f})

\* nothing was thrown
NoError == ""

\* the TypeError analyzeAlert raises, named by the value it found undefined, in the order
\* of its statements: recentAlerts.filter, systemStats.activeConnections,
\* blockedAttempts.filter, trafficData.length, alert.type.toLowerCase(),
\* alert.message.toLowerCase(); absent names the arguments passed as undefined
analyzeAlertThrows(newAlert, absent) ==
  IF "recentAlerts" \in absent THEN "recentAlerts"
  ELSE IF "systemStats" \in absent THEN "systemStats"
  ELSE IF "blockedAttempts" \in absent THEN "blockedAttempts"
  ELSE IF "trafficData" \in absent THEN "trafficData"
  ELSE IF "type" \notin DOMAIN newAlert THEN "type"
  ELSE IF "message" \notin DOMAIN newAlert THEN "message"
  ELSE NoError

\* t is the value Date.now() returns during the call
analyzeAlert(newAlert, recentAlerts, systemStats, trafficData, blockedAttempts, t) ==
  LET base == calculateRiskFactors(newAlert, recentAlerts, systemStats,
                                   trafficData, blockedAttempts, t)
      crit == isCriticalAlertType(newAlert)
      wide == hasSystemWideImpact(newAlert)
      burstAnalysis == detectAlertBurst(newAlert, recentAlerts, t)
      resourceAnalysis == analyzeSystemResources(systemStats, trafficData)
      attackPattern == detectCoordinatedAttack(newAlert, recentAlerts, blockedAttempts, t)
      score == base
               + (IF crit THEN 30 ELSE 0)
               + (IF wide THEN 25 ELSE 0)
               + (IF burstAnalysis.isBurst THEN 20 ELSE 0)
               + (IF resourceAnalysis.critical THEN resourceAnalysis.riskIncrease ELSE 0)
               + (IF attackPattern.detected THEN 25 ELSE 0)
      prio == calculatePriority(score)
  IN  [requiresPopup |-> requiresPopupRule(score, prio),
       priority |-> prio,
       riskScore |-> score,
       impactLevel |-> calculateImpactLevel(score),
       reasons |-> (IF crit THEN <<"Alert type classified as critical">> ELSE <<>>)
                   \o (IF wide THEN <<"Indicates potential system-wide impact">> ELSE <<>>)
                   \o (IF burstAnalysis.isBurst THEN <<"Alert burst detected">> ELSE <<>>)
                   \o (IF resourceAnalysis.critical
                         THEN <<"Resources critical">> ELSE <<>>)
                   \o (IF attackPattern.detected
                         THEN <<"Coordinated attack pattern detected">> ELSE <<>>),
       recommendation |-> generateRecommendation(prio),
       affectedSystems |-> (IF wide THEN <<"Core Infrastructure">> ELSE <<>>)
                           \o (IF resourceAnalysis.critical
                                 THEN resourceAnalysis.affectedSystems ELSE <<>>)
                           \o (IF attackPattern.detected
                                 THEN <<"Security Perimeter">> ELSE <<>>),
       estimatedDowntimeRisk |-> calculateDowntimeRisk(score, resourceAnalysis)]

\* Math.round of a value given in tenths
RoundTenths(x) == (x + 5) \div 10

\* a faulty variant: the impact level is copied into the priority
formatAlertForDisplayMixesLevels(alert, analysis, t) ==
  [f \in DOMAIN alert \cup {"analysis"} |->
     IF f = "analysis"
       THEN [riskScore |-> analysis.riskScore,
             priority |-> analysis.impactLevel,
             impactLevel |-> analysis.impactLevel,
             requiresPopup |-> analysis.requiresPopup,
             reasons |-> analysis.reasons,
             recommendation |-> analysis.recommendation,
             affectedSystems |-> analysis.affectedSystems,
             estimatedDowntimeRisk |-> RoundTenths(analysis.estimatedDowntimeRisk),
             analyzedAt |-> t]
       ELSE alert[f]]

\* { ...alert, analysis: { ..., analyzedAt: Date.now() } }; Math.round(analysis.riskScore)
\* leaves the score as it is, a sum of integers
formatAlertForDisplay(alert, analysis, t) ==
  [f \in DOMAIN alert \cup {"analysis"} |->
     IF f = "analysis"
       THEN [riskScore |-> analysis.riskScore,
             priority |-> analysis.priority,
             impactLevel |-> analysis.impactLevel,
             requiresPopup |-> analysis.requiresPopup,
             reasons |-> analysis.reasons,
             recommendation |-> analysis.recommendation,
             affectedSystems |-> analysis.affectedSystems,
             estimatedDowntimeRisk |-> RoundTenths(analysis.estimatedDowntimeRisk),
             analyzedAt |-> t]
       ELSE alert[f]]


(***************************************************************************)
(* Bounds of the exploration.                                              *)
(***************************************************************************)
\* Date.now() advances by this much between two generator calls
ClockStep == 9000
\* alerts already pushed and processed, one at a time, when exploration starts
WarmNone == 0
WarmSeen == 100
\* events explored: calls of generateRandomAlert, context updates (traffic samples,
\* blocked attempts, connection counts) and user actions
MaxEvents == 2
\* state-setter calls of the listeners one render may batch
MaxQueued == 2
\* how often the clock advances between the calls of the analyzer
AnalyzeTicks == 1
\* fault specification: alerts pushed by the dashboard and by the other client
FaultEvents == 3
\* traffic specification: traffic samples and alerts pushed
TrafficEvents == 3
\* feed specification: calls of generateRandomAlert, and alerts pushed by the one
\* call of simulateUserLatencies (one per high-latency session)
FeedAlerts == 1
FeedLatencyAlerts == 21

(***************************************************************************)
(* Program constants.                                                      *)
(***************************************************************************)
\* LIMITS.alerts, LIMITS.blocked_attempts, LIMITS.active_traffic
LimitAlerts == 20
LimitBlocked == 20
LimitTraffic == 40
\* .slice(0, 50) of the notification list, slice(-100) of the seen-set
NotificationCap == 50
SeenCap == 100
\* alerts.slice(0, 20), trafficData.slice(0, 20), blockedAttempts.slice(0, 50)
RecentAlertsWindow == 20
RecentTrafficWindow == 20
RecentBlockedWindow == 50

VARIABLES
  now,                \* the wall clock, Date.now()
  nextKey,            \* push keys handed out so far under 'alerts'
  alertsNode,         \* children of 'alerts' the query limitToLast(20) returns, in key order
  trafficNode,        \* children of 'active_traffic' the query returns, in key order
  blockedNode,        \* children of 'blocked_attempts' the query returns, in key order
  statsNode,          \* the 'system_stats' object
  latency,            \* simulateUserLatencies in progress: its captured now, pushes left
  calls,              \* per dashboard session, the generator call in flight: its
                      \* position and the system_stats snapshot it has read
  alerts,             \* React state of the dashboard as of the last render ...
  trafficData,
  blockedAttempts,
  systemStats,
  notifications,      \* ... and of useAlertMonitoring
  processedAlertIds,  \* a JS Set, as the sequence of its elements in insertion order
  pending,            \* the state the next render will show (queued updates applied)
  effects,            \* passive effects of the last render that have not run yet
  classifyLog,        \* history: the alert ids passed to analyzeAlert, in call order
  insertedAt,         \* history: for each entry of pending.notifications, the index in
                      \* classifyLog of the call that produced it
  lastOp,             \* history: the last user action and its input
  analysis,           \* history: the latest call of analyzeAlert that returned: its
                      \* arguments, the time of the call and the result
  formatted,          \* history: the latest call of formatAlertForDisplay, likewise
  thrown,             \* the error a call has thrown and nothing caught (NoError if none)
  left                \* what is left of each exploration bound

vars == <<now, nextKey, alertsNode, trafficNode, blockedNode, statsNode, latency, calls,
          alerts, trafficData, blockedAttempts, systemStats, notifications,
          processedAlertIds, pending, effects, classifyLog, insertedAt, lastOp, analysis,
          formatted, thrown, left>>

dbVars == <<alertsNode, trafficNode, blockedNode, statsNode>>
renderedVars == <<alerts, trafficData, blockedAttempts, systemStats, notifications,
                  processedAlertIds>>
histVars == <<classifyLog, insertedAt, analysis, formatted, thrown>>

(***************************************************************************)
(* Listener helpers.                                                       *)
(***************************************************************************)
\* arr.sort((a, b) => b.timestamp - a.timestamp): stable, descending
RECURSIVE SortDesc(_)
SortDesc(s) ==
  IF s = <<>> THEN <<>>
  ELSE LET done == SortDesc(SubSeq(s, 1, Len(s) - 1))
           x == s[Len(s)]
           k == Cardinality({i \in 1..Len(done) : done[i].timestamp >= x.timestamp})
       IN  SubSeq(done, 1, k) \o <<x>> \o SubSeq(done, k + 1, Len(done))

\* arr.sort((a, b) => a.timestamp - b.timestamp): stable, ascending
RECURSIVE SortAsc(_)
SortAsc(s) ==
  IF s = <<>> THEN <<>>
  ELSE LET done == SortAsc(SubSeq(s, 1, Len(s) - 1))
           x == s[Len(s)]
           k == Cardinality({i \in 1..Len(done) : done[i].timestamp <= x.timestamp})
       IN  SubSeq(done, 1, k) \o <<x>> \o SubSeq(done, k + 1, Len(done))

\* alertsUnsub: Object.entries(data).map(...) then sort descending, slice(0, LIMITS.alerts)
AlertsSnapshot(node) == SliceHead(SortDesc(node), LimitAlerts)

\* blockedUnsub
BlockedSnapshot(node) == SliceHead(SortDesc(node), LimitBlocked)

\* a faulty variant: the samples are kept whole, with their resource readings
TrafficSnapshotKeepsReadings(node) == SliceTail(SortAsc(node), LimitTraffic)

\* trafficUnsub: keeps id, inbound, outbound, threats, timestamp; sorts ascending
TrafficSnapshot(node) ==
  SliceTail(SortAsc([i \in 1..Len(node) |->
                       [id |-> node[i].id, inbound |-> node[i].inbound,
                        outbound |-> node[i].outbound, threats |-> node[i].threats,
                        timestamp |-> node[i].timestamp]]), LimitTraffic)

(***************************************************************************)
(* useAlertMonitoring helpers.                                             *)
(***************************************************************************)
\* new Set([...prev, id])
SetAdd(set, id) == IF id \in Range(set) THEN set ELSE Append(set, id)

\* a faulty variant: the set is never trimmed
TrimSeenNever(set) == set

\* new Set(Array.from(processedAlertIds).slice(-100))
TrimSeen(set) == SliceTail(set, SeenCap)

\* faulty variants: no cap; the cap keeps the tail; the new entry goes to the back
PushNotificationUncapped(n, prev) == <<n>> \o prev

PushNotificationKeepTail(n, prev) == SliceTail(<<n>> \o prev, NotificationCap)

PushNotificationAtBack(n, prev) == SliceTail(prev \o <<n>>, NotificationCap)

\* [{ ...formattedAlert, read: false }, ...prev].slice(0, 50)
PushNotification(n, prev) == SliceHead(<<n>> \o prev, NotificationCap)

\* { ...formattedAlert, read: false }
Unread(formattedAlert) ==
  [f \in DOMAIN formattedAlert \cup {"read"} |->
     IF f = "read" THEN FALSE ELSE formattedAlert[f]]

\* a faulty variant: the window starts behind the head
RecentAlertsBehindHead(as) == SliceHead(Tail(as), RecentAlertsWindow)

\* const recentAlerts = alerts.slice(0, 20), with latestAlert = alerts[0]
RecentAlerts(as) == SliceHead(as, RecentAlertsWindow)

\* alertAnalyzer.analyzeAlert(latestAlert, alerts.slice(0, 20), systemStats,
\*                            trafficData.slice(0, 20), blockedAttempts.slice(0, 50))
Analyze(as, traffic, blocked, stats, t) ==
  analyzeAlert(as[1], RecentAlerts(as), stats,
               SliceHead(traffic, RecentTrafficWindow),
               SliceHead(blocked, RecentBlockedWindow), t)

\* the notification the first effect builds for alerts[0]
Classify(as, traffic, blocked, stats, t) ==
  Unread(formatAlertForDisplay(as[1], Analyze(as, traffic, blocked, stats, t), t))

\* a faulty variant: every notification is marked
handleMarkAllAsRead(prev, notificationId) ==
  [i \in 1..Len(prev) |-> [prev[i] EXCEPT !.read = TRUE]]

\* a faulty variant: the flag of the matching notifications is flipped
handleMarkAsReadToggles(prev, notificationId) ==
  [i \in 1..Len(prev) |->
     IF prev[i].id = notificationId THEN [prev[i] EXCEPT !.read = ~@] ELSE prev[i]]

\* prev.map(n => n.id === notificationId ? { ...n, read: true } : n)
handleMarkAsRead(prev, notificationId) ==
  [i \in 1..Len(prev) |->
     IF prev[i].id = notificationId THEN [prev[i] EXCEPT !.read = TRUE] ELSE prev[i]]

\* a faulty variant: the answer to the confirmation is ignored
handleClearAllUnconfirmed(prev, confirmed) == <<>>

\* if (window.confirm(...)) setNotifications([])
handleClearAll(prev, confirmed) == IF confirmed THEN <<>> ELSE prev

(***************************************************************************)
(* Initial states: the dashboard after `warm` alerts were generated, each  *)
(* one delivered, rendered and processed before the next.                  *)
(***************************************************************************)
\* the useState initial value and the system_stats written by initializeData
InitialStats ==
  [totalUsers |-> 1247, activeConnections |-> 0, blockedAttempts |-> 0, alertsToday |-> 0]

\* an alert as generateRandomAlert pushes it (fields the core reads), under key i
NewAlert(i, ty, msg, sev, ts) ==
  [id |-> i, type |-> ty, message |-> msg, severity |-> sev, timestamp |-> ts]

\* the warm alerts: every seventh is a high-severity DDoS attack, the others low
WarmAlert(i) ==
  NewAlert(i, IF i % 7 = 0 THEN "DDoS Attack" ELSE "Port Scanning",
           "Abnormal traffic spike detected from single source IP",
           IF i % 7 = 0 THEN "high" ELSE "low", i * ClockStep)

WarmNode(n) == LET k == Min(n, LimitAlerts) IN [j \in 1..k |-> WarmAlert(n - k + j)]

WarmStats(n) == [InitialStats EXCEPT !.alertsToday = n]

WarmNotification(i) ==
  Classify(AlertsSnapshot(WarmNode(i)), <<>>, <<>>, WarmStats(i), i * ClockStep)

WarmNotifications(n) ==
  [j \in 1..Min(n, NotificationCap) |-> WarmNotification(n - j + 1)]

WarmSeenSet(n) == TrimSeen([i \in 1..n |-> i])

\* no call of analyzeAlert recorded yet
NoAnalysis ==
  [newAlert |-> <<>>, recentAlerts |-> <<>>, systemStats |-> <<>>, trafficData |-> <<>>,
   blockedAttempts |-> <<>>, at |-> 0, result |-> <<>>]

\* the record of a call of analyzeAlert made at time t
AnalysisOf(newAlert, recentAlerts, stats, traffic, blocked, t) ==
  [newAlert |-> newAlert, recentAlerts |-> recentAlerts, systemStats |-> stats,
   trafficData |-> traffic, blockedAttempts |-> blocked, at |-> t,
   result |-> analyzeAlert(newAlert, recentAlerts, stats, traffic, blocked, t)]

\* no call of formatAlertForDisplay recorded yet
NoFormat == [alert |-> <<>>, analysis |-> <<>>, at |-> 0, result |-> <<>>]

\* the record of a call of formatAlertForDisplay made at time t
FormatOf(alert, assessment, t) ==
  [alert |-> alert, analysis |-> assessment, at |-> t,
   result |-> formatAlertForDisplay(alert, assessment, t)]

\* the component tree is mounted: React unmounts the root when an effect throws and no
\* error boundary catches
Mounted == thrown = NoError

Rendered ==
  [alerts |-> alerts, trafficData |-> trafficData, blockedAttempts |-> blockedAttempts,
   systemStats |-> systemStats, notifications |-> notifications,
   processedAlertIds |-> processedAlertIds]

\* the dashboard sessions writing to the database
Sessions == 2

\* no generator call in flight
NoCall == [op |-> "none", pc |-> "idle", stats |-> InitialStats]

NoCalls == [s \in 1..Sessions |-> NoCall]

InitWarm(n) ==
  /\ now = n * ClockStep
  /\ nextKey = n
  /\ alertsNode = WarmNode(n)
  /\ trafficNode = <<>>
  /\ blockedNode = <<>>
  /\ statsNode = WarmStats(n)
  /\ latency = [now |-> 0, left |-> 0]
  /\ calls = NoCalls
  /\ alerts = AlertsSnapshot(WarmNode(n))
  /\ trafficData = <<>>
  /\ blockedAttempts = <<>>
  /\ systemStats = WarmStats(n)
  /\ notifications = WarmNotifications(n)
  /\ processedAlertIds = WarmSeenSet(n)
  /\ pending = [alerts |-> AlertsSnapshot(WarmNode(n)), trafficData |-> <<>>,
                blockedAttempts |-> <<>>, systemStats |-> WarmStats(n),
                notifications |-> WarmNotifications(n),
                processedAlertIds |-> WarmSeenSet(n)]
  /\ effects = {}
  /\ classifyLog = [i \in 1..n |-> i]
  /\ insertedAt = [j \in 1..Min(n, NotificationCap) |-> n - j + 1]
  /\ lastOp = [op |-> "none", id |-> 0, confirmed |-> FALSE]
  /\ analysis = NoAnalysis
  /\ formatted = NoFormat
  /\ thrown = NoError

Init ==
  /\ \E n \in {WarmNone, WarmSeen} : InitWarm(n)
  /\ left = [events |-> MaxEvents, latency |-> 0, queued |-> MaxQueued]

InitFeed ==
  /\ InitWarm(WarmNone)
  /\ left = [events |-> FeedAlerts, latency |-> 1, queued |-> MaxQueued]

(***************************************************************************)
(* Data generators of the dashboard (the event source).  A write raises    *)
(* the value event of its listener before the next write is made.          *)
(***************************************************************************)
Delivered ==
  /\ pending.alerts = AlertsSnapshot(alertsNode)
  /\ pending.trafficData = TrafficSnapshot(trafficNode)
  /\ pending.blockedAttempts = BlockedSnapshot(blockedNode)
  /\ pending.systemStats.alertsToday = statsNode.alertsToday
  /\ pending.systemStats.blockedAttempts = statsNode.blockedAttempts

\* (type, severity) pairs generateRandomAlert draws
AlertKinds ==
  {[type |-> "Port Scanning", severity |-> "low"],
   [type |-> "DDoS Attack", severity |-> "high"]}

\* push(alertsRef, a), seen through query(alertsRef, limitToLast(LIMITS.alerts))
PushAlert(node, a) == SliceTail(Append(node, a), LimitAlerts)

\* push(alertsRef, newAlert), then alertsToday + 1 written to system_stats (the read
\* and the write of the counter taken as one step)
generateRandomAlert(kind) ==
  /\ effects = {}
  /\ Delivered
  /\ left.events > 0
  /\ now' = now + ClockStep
  /\ nextKey' = nextKey + 1
  /\ alertsNode' = PushAlert(alertsNode,
                     NewAlert(nextKey + 1, kind.type,
                              "Abnormal traffic spike detected from single source IP",
                              kind.severity, now + ClockStep))
  /\ statsNode' = [statsNode EXCEPT !.alertsToday = @ + 1]
  /\ left' = [left EXCEPT !.events = @ - 1]
  /\ UNCHANGED <<trafficNode, blockedNode, latency, calls, renderedVars, pending, effects,
                 histVars, lastOp>>

\* simulateUserLatencies: const now = Date.now() before the loop over the sessions
simulateUserLatenciesBegin(k) ==
  /\ effects = {}
  /\ latency.left = 0
  /\ left.latency > 0
  /\ now' = now + ClockStep
  /\ latency' = [now |-> now + ClockStep, left |-> k]
  /\ left' = [left EXCEPT !.latency = @ - 1]
  /\ UNCHANGED <<nextKey, dbVars, calls, renderedVars, pending, effects, histVars, lastOp>>

\* one iteration of the loop for a high-latency session: await push(alertsRef, ...)
simulateUserLatenciesPush ==
  /\ effects = {}
  /\ Delivered
  /\ latency.left > 0
  /\ nextKey' = nextKey + 1
  /\ alertsNode' = PushAlert(alertsNode,
                     NewAlert(nextKey + 1, "High Latency Warning",
                              "User experiencing high latency", "medium", latency.now))
  /\ latency' = [latency EXCEPT !.left = @ - 1]
  /\ UNCHANGED <<now, trafficNode, blockedNode, statsNode, calls, renderedVars, pending,
                 effects, histVars, lastOp, left>>

generateRandomTrafficData(inbound) ==
  /\ effects = {}
  /\ Delivered
  /\ left.events > 0
  /\ now' = now + ClockStep
  /\ trafficNode' = SliceTail(Append(trafficNode,
                       [id |-> Len(trafficNode) + 1, timestamp |-> now + ClockStep,
                        inbound |-> inbound, outbound |-> 80, threats |-> 2,
                        cpu_usage |-> 50, memory_usage |-> 50, packet_loss |-> 1]),
                       LimitTraffic)
  /\ left' = [left EXCEPT !.events = @ - 1]
  /\ UNCHANGED <<nextKey, alertsNode, blockedNode, statsNode, latency, calls, renderedVars,
                 pending, effects, histVars, lastOp>>

generateRandomBlockedAttempt ==
  /\ effects = {}
  /\ Delivered
  /\ left.events > 0
  /\ now' = now + ClockStep
  /\ blockedNode' = SliceTail(Append(blockedNode,
                       [id |-> Len(blockedNode) + 1, timestamp |-> now + ClockStep]),
                       LimitBlocked)
  /\ statsNode' = [statsNode EXCEPT !.blockedAttempts = @ + 1]
  /\ left' = [left EXCEPT !.events = @ - 1]
  /\ UNCHANGED <<nextKey, alertsNode, trafficNode, latency, calls, renderedVars, pending,
                 effects, histVars, lastOp>>

(***************************************************************************)
(* Realtime-database listeners of the dashboard: each calls a state setter.*)
(***************************************************************************)
Queue == [left EXCEPT !.queued = @ - 1]

alertsUnsub ==
  /\ effects = {}
  /\ left.queued > 0
  /\ pending.alerts # AlertsSnapshot(alertsNode)
  /\ pending' = [pending EXCEPT !.alerts = AlertsSnapshot(alertsNode)]
  /\ left' = Queue
  /\ UNCHANGED <<now, nextKey, dbVars, latency, calls, renderedVars, effects, histVars, lastOp>>

trafficUnsub ==
  /\ effects = {}
  /\ left.queued > 0
  /\ pending.trafficData # TrafficSnapshot(trafficNode)
  /\ pending' = [pending EXCEPT !.trafficData = TrafficSnapshot(trafficNode)]
  /\ left' = Queue
  /\ UNCHANGED <<now, nextKey, dbVars, latency, calls, renderedVars, effects, histVars, lastOp>>

blockedUnsub ==
  /\ effects = {}
  /\ left.queued > 0
  /\ pending.blockedAttempts # BlockedSnapshot(blockedNode)
  /\ pending' = [pending EXCEPT !.blockedAttempts = BlockedSnapshot(blockedNode)]
  /\ left' = Queue
  /\ UNCHANGED <<now, nextKey, dbVars, latency, calls, renderedVars, effects, histVars, lastOp>>

\* setSystemStats(data): the snapshot replaces the whole object
statsUnsub ==
  /\ effects = {}
  /\ pending.alerts = AlertsSnapshot(alertsNode)
  /\ pending.blockedAttempts = BlockedSnapshot(blockedNode)
  /\ \E f \in {"alertsToday", "blockedAttempts"} : pending.systemStats[f] # statsNode[f]
  /\ pending' = [pending EXCEPT !.systemStats = statsNode]
  /\ UNCHANGED <<now, nextKey, dbVars, latency, calls, renderedVars, effects, histVars, lastOp,
                 left>>

\* setSystemStats(prev => ({ ...prev, activeConnections: val }))
connUnsub(val) ==
  /\ effects = {}
  /\ Delivered
  /\ left.events > 0
  /\ pending' = [pending EXCEPT !.systemStats.activeConnections = val]
  /\ left' = [left EXCEPT !.events = @ - 1]
  /\ UNCHANGED <<now, nextKey, dbVars, latency, calls, renderedVars, effects, histVars, lastOp>>

(***************************************************************************)
(* React: a render shows the queued updates, then its passive effects run  *)
(* in the order the hook declares them.                                    *)
(***************************************************************************)
Render ==
  /\ effects = {}
  /\ pending # Rendered
  /\ alerts' = pending.alerts
  /\ trafficData' = pending.trafficData
  /\ blockedAttempts' = pending.blockedAttempts
  /\ systemStats' = pending.systemStats
  /\ notifications' = pending.notifications
  /\ processedAlertIds' = pending.processedAlertIds
  /\ effects' =
       (IF \/ pending.alerts # alerts
           \/ pending.trafficData # trafficData
           \/ pending.blockedAttempts # blockedAttempts
           \/ pending.systemStats # systemStats
           \/ pending.processedAlertIds # processedAlertIds
          THEN {"monitor"} ELSE {})
       \cup (IF pending.processedAlertIds # processedAlertIds THEN {"trim"} ELSE {})
  /\ left' = [left EXCEPT !.queued = MaxQueued]
  /\ UNCHANGED <<now, nextKey, dbVars, latency, calls, pending, histVars, lastOp>>

\* a faulty variant: the seen-set is not consulted
AlreadyProcessedNever(seen, id) == FALSE

\* if (processedAlertIds.has(latestAlert.id)) return;
AlreadyProcessed(seen, id) == id \in Range(seen)

\* the first useEffect of useAlertMonitoring
MonitorEffect ==
  /\ "monitor" \in effects
  /\ IF Len(alerts) = 0 \/ AlreadyProcessed(processedAlertIds, alerts[1].id)
       THEN /\ effects' = effects \ {"monitor"}
            /\ UNCHANGED <<pending, histVars>>
       ELSE IF analyzeAlertThrows(alerts[1], {}) # NoError
       THEN /\ thrown' = analyzeAlertThrows(alerts[1], {})
            /\ effects' = {}
            /\ UNCHANGED <<pending, classifyLog, insertedAt, analysis, formatted>>
       ELSE /\ effects' = effects \ {"monitor"}
            /\ thrown' = thrown
            /\ pending' = [pending EXCEPT
                 !.processedAlertIds = SetAdd(@, alerts[1].id),
                 !.notifications =
                    PushNotification(
                      Classify(alerts, trafficData, blockedAttempts, systemStats, now), @)]
            /\ classifyLog' = Append(classifyLog, alerts[1].id)
            /\ insertedAt' = PushNotification(Len(classifyLog) + 1, insertedAt)
            /\ analysis' = AnalysisOf(alerts[1], RecentAlerts(alerts),
                                       systemStats,
                                       SliceHead(trafficData, RecentTrafficWindow),
                                       SliceHead(blockedAttempts, RecentBlockedWindow), now)
            /\ formatted' = FormatOf(alerts[1],
                                     Analyze(alerts, trafficData, blockedAttempts,
                                             systemStats, now), now)
  /\ UNCHANGED <<now, nextKey, dbVars, latency, calls, renderedVars, lastOp, left>>

\* the second useEffect of useAlertMonitoring
TrimEffect ==
  /\ effects = {"trim"}
  /\ effects' = {}
  /\ IF Len(processedAlertIds) > SeenCap
       THEN pending' = [pending EXCEPT !.processedAlertIds = TrimSeen(processedAlertIds)]
       ELSE UNCHANGED pending
  /\ UNCHANGED <<now, nextKey, dbVars, latency, calls, renderedVars, histVars, lastOp, left>>

(***************************************************************************)
(* Operations the hook exposes to the presentation layer.                  *)
(***************************************************************************)
\* ids the explored user actions aim at: the newest and the oldest notification shown,
\* and an id no notification has
ReadTargets ==
  {0} \cup (IF Len(notifications) = 0 THEN {}
            ELSE {notifications[1].id, notifications[Len(notifications)].id})

markAsReadCall(op, notificationId) ==
  /\ effects = {}
  /\ left.events > 0
  /\ pending' = [pending EXCEPT !.notifications = handleMarkAsRead(@, notificationId)]
  /\ lastOp' = [op |-> op, id |-> notificationId, confirmed |-> FALSE]
  /\ left' = [left EXCEPT !.events = @ - 1]
  /\ UNCHANGED <<now, nextKey, dbVars, latency, calls, renderedVars, effects, histVars>>

markAsRead(notificationId) == markAsReadCall("markAsRead", notificationId)

\* handleViewDetails(notification) calls handleMarkAsRead(notification.id)
viewDetails(notification) == markAsReadCall("viewDetails", notification.id)

\* the "Mark all as read" button of NotificationSystem, shown while a notification is
\* unread: notifications.forEach(n => { if (!n.read) onMarkAsRead(n.id); }) over the
\* rendered list, each call a functional update
markAllAsRead ==
  LET unread == {notifications[i].id : i \in {j \in 1..Len(notifications) :
                                                ~notifications[j].read}}
  IN  /\ effects = {}
      /\ left.events > 0
      /\ unread # {}
      /\ pending' = [pending EXCEPT !.notifications =
                       [i \in 1..Len(@) |->
                          IF @[i].id \in unread THEN [@[i] EXCEPT !.read = TRUE] ELSE @[i]]]
      /\ lastOp' = [op |-> "markAllAsRead", id |-> 0, confirmed |-> FALSE]
      /\ left' = [left EXCEPT !.events = @ - 1]
      /\ UNCHANGED <<now, nextKey, dbVars, latency, calls, renderedVars, effects, histVars>>

\* a faulty variant: clearing the list also empties the seen-set
clearAllForgets(confirmed) ==
  /\ effects = {}
  /\ left.events > 0
  /\ pending' = [pending EXCEPT !.notifications = handleClearAll(@, confirmed),
                                !.processedAlertIds = IF confirmed THEN <<>> ELSE @]
  /\ insertedAt' = handleClearAll(insertedAt, confirmed)
  /\ lastOp' = [op |-> "clearAll", id |-> 0, confirmed |-> confirmed]
  /\ left' = [left EXCEPT !.events = @ - 1]
  /\ UNCHANGED <<now, nextKey, dbVars, latency, calls, renderedVars, effects, classifyLog,
                 analysis, formatted, thrown>>

clearAll(confirmed) ==
  /\ effects = {}
  /\ left.events > 0
  /\ pending' = [pending EXCEPT !.notifications = handleClearAll(@, confirmed)]
  /\ insertedAt' = handleClearAll(insertedAt, confirmed)
  /\ lastOp' = [op |-> "clearAll", id |-> 0, confirmed |-> confirmed]
  /\ left' = [left EXCEPT !.events = @ - 1]
  /\ UNCHANGED <<now, nextKey, dbVars, latency, calls, renderedVars, effects, classifyLog,
                 analysis, formatted, thrown>>

React ==
  \/ alertsUnsub
  \/ Render
  \/ MonitorEffect
  \/ TrimEffect

Next ==
  \/ \E kind \in AlertKinds : generateRandomAlert(kind)
  \/ \E inbound \in {120} : generateRandomTrafficData(inbound)
  \/ generateRandomBlockedAttempt
  \/ trafficUnsub
  \/ blockedUnsub
  \/ statsUnsub
  \/ \E val \in {600} : connUnsub(val)
  \/ React
  \/ \E id \in ReadTargets : markAsRead(id)
  \/ \E i \in {1} : i <= Len(notifications) /\ viewDetails(notifications[i])
  \/ markAllAsRead
  \/ \E confirmed \in BOOLEAN : clearAll(confirmed)

Spec == Init /\ [][Next]_vars

NextFeed ==
  \/ \E kind \in AlertKinds : generateRandomAlert(kind)
  \/ \E k \in {1, FeedLatencyAlerts} : simulateUserLatenciesBegin(k)
  \/ simulateUserLatenciesPush
  \/ statsUnsub
  \/ React

SpecFeed == InitFeed /\ [][NextFeed]_vars

(***************************************************************************)
(* The popup.  The views take criticalAlert from the object the hook       *)
(* returns; the hook returns notifications and three handlers only.        *)
(***************************************************************************)
\* const { criticalAlert, ... } = useAlertMonitoring(...): a property the returned object
\* does not have
criticalAlert == "undefined"

\* CriticalAlertModal: if (!alert) return null; otherwise the overlay is rendered
CriticalAlertModal(alert) == alert # "undefined"

(***************************************************************************)
(* The feed with a second writer: any client of the database may push to   *)
(* the alerts node, and alertsUnsub maps whatever record it finds.         *)
(***************************************************************************)
InitFault ==
  /\ InitWarm(WarmNone)
  /\ left = [events |-> FaultEvents, latency |-> 0, queued |-> MaxQueued]

\* a record pushed to the alerts node by another client, without the fields in missing;
\* the write does not depend on this client being mounted
externalPush(missing) ==
  /\ Mounted => (effects = {} /\ Delivered)
  /\ left.events > 0
  /\ now' = now + ClockStep
  /\ nextKey' = nextKey + 1
  /\ LET a == NewAlert(nextKey + 1, "Port Scanning",
                       "Abnormal traffic spike detected from single source IP", "low",
                       now + ClockStep)
     IN  alertsNode' = PushAlert(alertsNode, [f \in DOMAIN a \ missing |-> a[f]])
  /\ left' = [left EXCEPT !.events = @ - 1]
  /\ UNCHANGED <<trafficNode, blockedNode, statsNode, latency, calls, renderedVars, pending,
                 effects, histVars, lastOp>>

\* once an effect has thrown, the root is unmounted: its intervals and listeners are
\* cleaned up and nothing of this client runs any more
NextFault ==
  \/ \E kind \in AlertKinds : Mounted /\ generateRandomAlert(kind)
  \/ Mounted /\ statsUnsub
  \/ Mounted /\ alertsUnsub
  \/ Mounted /\ Render
  \/ Mounted /\ MonitorEffect
  \/ Mounted /\ TrimEffect
  \/ \E missing \in {{}, {"type"}, {"message"}} : externalPush(missing)

SpecFault == InitFault /\ [][NextFault]_vars

(***************************************************************************)
(* The traffic feed: samples written by the dashboard and by other clients *)
(* of the database, alerts classified against them.                        *)
(***************************************************************************)
InitTraffic ==
  /\ InitWarm(WarmNone)
  /\ left = [events |-> TrafficEvents, latency |-> 0, queued |-> MaxQueued]

\* a sample pushed to the active_traffic node by another client, with readings above the
\* thresholds of the analyzer
externalTrafficPush ==
  /\ effects = {}
  /\ Delivered
  /\ left.events > 0
  /\ now' = now + ClockStep
  /\ trafficNode' = SliceTail(Append(trafficNode,
                       [id |-> Len(trafficNode) + 1, timestamp |-> now + ClockStep,
                        inbound |-> 120, outbound |-> 80, threats |-> 2,
                        cpu_usage |-> 95, memory_usage |-> 95, packet_loss |-> 6]),
                       LimitTraffic)
  /\ left' = [left EXCEPT !.events = @ - 1]
  /\ UNCHANGED <<nextKey, alertsNode, blockedNode, statsNode, latency, calls, renderedVars,
                 pending, effects, histVars, lastOp>>

NextTraffic ==
  \/ \E kind \in AlertKinds : generateRandomAlert(kind)
  \/ \E inbound \in {120} : generateRandomTrafficData(inbound)
  \/ externalTrafficPush
  \/ trafficUnsub
  \/ statsUnsub
  \/ React

SpecTraffic == InitTraffic /\ [][NextTraffic]_vars

(***************************************************************************)
(* The analyzer on its own: the initial state draws the context arguments  *)
(* of analyzeAlert, the action draws newAlert and applies the function.    *)
(***************************************************************************)
\* Date.now() during the calls: late enough for an alert to be outside the time window
AnalyzeClock == criticalTimeWindow + criticalTimeWindow

\* n alerts of one type and severity, all with timestamp ts
AlertRun(n, ty, sev, ts) ==
  [i \in 1..n |-> NewAlert(i, ty, "Abnormal traffic spike detected from single source IP",
                           sev, ts)]

RecentAlertsInputs ==
  {<<>>,
   AlertRun(3, "DDoS Attack", "high", AnalyzeClock - ClockStep),
   AlertRun(3, "DDoS Attack", "high", 0),
   AlertRun(3, "Port Scanning", "high", AnalyzeClock - ClockStep),
   AlertRun(2, "Port Scanning", "high", AnalyzeClock - ClockStep),
   AlertRun(8, "Port Scanning", "medium", AnalyzeClock - ClockStep)}

\* a traffic sample as generateRandomTrafficData writes it
TrafficSample(inbound, cpu, mem, loss) ==
  [id |-> 1, timestamp |-> AnalyzeClock - ClockStep, inbound |-> inbound, outbound |-> 80,
   threats |-> 2, cpu_usage |-> cpu, memory_usage |-> mem, packet_loss |-> loss]

TrafficInputs ==
  {<<>>,
   <<TrafficSample(120, 50, 50, 1)>>,
   <<TrafficSample(120, 95, 50, 1)>>,
   <<TrafficSample(120, 50, 95, 6)>>,
   <<TrafficSample(120, 90, 90, 5)>>,
   <<TrafficSample(700, 50, 50, 1), TrafficSample(100, 50, 50, 1),
     TrafficSample(100, 50, 50, 1)>>,
   TrafficSnapshot(<<TrafficSample(120, 95, 95, 6)>>)}

BlockedInputs ==
  {[i \in 1..n |-> [id |-> i, timestamp |-> AnalyzeClock - ClockStep]] : n \in {0, 10, 24}}

NewAlertInputs ==
  {NewAlert(0, ty, msg, sev, AnalyzeClock) :
     ty \in {"Port Scanning", "DDoS Attack", "Massive DDOS ATTACK wave"},
     msg \in {"Abnormal traffic spike detected from single source IP",
              "Core router: System Down"},
     sev \in {"low", "medium", "high", "info"}}

\* the arguments that may be passed as undefined
AbsentInputs ==
  {{"recentAlerts"}, {"systemStats"}, {"trafficData"}, {"blockedAttempts"}}

\* the context the calls are made in; the variables of the hook hold the arguments
InitInputs ==
  /\ now = AnalyzeClock
  /\ nextKey = 0
  /\ alertsNode = <<>>
  /\ trafficNode = <<>>
  /\ blockedNode = <<>>
  /\ statsNode = InitialStats
  /\ latency = [now |-> 0, left |-> 0]
  /\ calls = NoCalls
  /\ alerts \in RecentAlertsInputs
  /\ trafficData \in TrafficInputs
  /\ blockedAttempts \in BlockedInputs
  /\ \E val \in {0, 600} : systemStats = [InitialStats EXCEPT !.activeConnections = val]
  /\ notifications = <<>>
  /\ processedAlertIds = <<>>
  /\ pending = Rendered
  /\ effects = {}
  /\ classifyLog = <<>>
  /\ insertedAt = <<>>
  /\ lastOp = [op |-> "none", id |-> 0, confirmed |-> FALSE]
  /\ analysis = NoAnalysis
  /\ formatted = NoFormat
  /\ thrown = NoError

InitAnalyze == InitInputs /\ left = [events |-> 0, latency |-> 0, queued |-> 0]

\* a faulty variant: the call pushes newAlert onto the recentAlerts array it was given
analyzeAlertCallPushes(newAlert, self, absent) ==
  /\ thrown = NoError
  /\ analysis' = AnalysisOf(newAlert, alerts, systemStats, trafficData, blockedAttempts, now)
  /\ alerts' = SliceHead(<<newAlert>> \o alerts, RecentAlertsWindow)
  /\ UNCHANGED <<now, nextKey, dbVars, latency, calls, trafficData, blockedAttempts, systemStats,
                 notifications, processedAlertIds, pending, effects, classifyLog,
                 insertedAt, lastOp, formatted, thrown, left>>

\* alertAnalyzer.analyzeAlert(newAlert, recentAlerts, systemStats, trafficData, blockedAttempts)
\* self: recentAlerts holds newAlert at its head, as alerts.slice(0, 20) does in the hook;
\* absent: the arguments passed as undefined; a TypeError ends the caller
analyzeAlertCall(newAlert, self, absent) ==
  /\ thrown = NoError
  /\ IF analyzeAlertThrows(newAlert, absent) # NoError
       THEN /\ thrown' = analyzeAlertThrows(newAlert, absent)
            /\ UNCHANGED analysis
       ELSE /\ analysis' = AnalysisOf(newAlert,
                                      IF self THEN <<newAlert>> \o alerts ELSE alerts,
                                      systemStats, trafficData, blockedAttempts, now)
            /\ UNCHANGED thrown
  /\ UNCHANGED <<now, nextKey, dbVars, latency, calls, renderedVars, pending, effects,
                 classifyLog, insertedAt, lastOp, formatted, left>>

NextAnalyze ==
  \E newAlert \in NewAlertInputs :
    \/ \E self \in BOOLEAN : analyzeAlertCall(newAlert, self, {})
    \/ \E absent \in AbsentInputs : analyzeAlertCall(newAlert, FALSE, absent)

SpecAnalyze == InitAnalyze /\ [][NextAnalyze]_vars

(***************************************************************************)
(* The analyzer and the formatter called at different times.               *)
(***************************************************************************)
InitTimed ==
  /\ InitInputs
  /\ blockedAttempts = <<>>
  /\ systemStats = InitialStats
  /\ trafficData = <<>>
  /\ left = [events |-> AnalyzeTicks, latency |-> 0, queued |-> 0]

\* time passes between two calls: Date.now() returns a later value
DateNowAdvances ==
  /\ left.events > 0
  /\ now' = now + criticalTimeWindow
  /\ left' = [left EXCEPT !.events = @ - 1]
  /\ UNCHANGED <<nextKey, dbVars, latency, calls, renderedVars, pending, effects, histVars, lastOp>>

\* alertAnalyzer.formatAlertForDisplay(alert, analysis) on the latest analysis
formatAlertForDisplayCall ==
  /\ thrown = NoError
  /\ analysis # NoAnalysis
  /\ formatted' = FormatOf(analysis.newAlert, analysis.result, now)
  /\ UNCHANGED <<now, nextKey, dbVars, latency, calls, renderedVars, pending, effects,
                 classifyLog, insertedAt, lastOp, analysis, thrown, left>>

NextTimed ==
  \/ \E newAlert \in NewAlertInputs : analyzeAlertCall(newAlert, FALSE, {})
  \/ formatAlertForDisplayCall
  \/ DateNowAdvances

SpecTimed == InitTimed /\ [][NextTimed]_vars

(***************************************************************************)
(* Properties.                                                             *)
(***************************************************************************)
\* how often analyzeAlert was called for the alert with this id
TimesClassified(id) == Cardinality({i \in 1..Len(classifyLog) : classifyLog[i] = id})

\* every write has been delivered and rendered, and no effect is left to run
Idle == effects = {} /\ Delivered /\ pending = Rendered

\* the step is a run of the first effect
MonitorStep == "monitor" \in effects /\ "monitor" \notin effects'

C2_EveryDeliveredAlertClassified ==
  Idle => \A i \in 1..Len(alerts) : TimesClassified(alerts[i].id) = 1

\* C3: the notification list, rendered or queued for the next render, holds at most 50
\* entries in every reachable state.
C3_NotificationCap ==
  /\ Len(notifications) <= NotificationCap
  /\ Len(pending.notifications) <= NotificationCap

\* the list is full and its first entry is for an alert classified during the exploration
C3_Witness ==
  /\ Len(notifications) = NotificationCap
  /\ analysis # NoAnalysis
  /\ notifications[1].id = analysis.newAlert.id
  /\ Len(classifyLog) > NotificationCap

\* C4: when a notification is added to a list of 50, the entry removed is the one that was
\* inserted earliest, and the 49 others follow the new one in their former order.
C4_FifoEviction ==
  [][(classifyLog' # classifyLog /\ Len(pending.notifications) = NotificationCap)
       => /\ Len(pending'.notifications) = NotificationCap
          /\ pending'.notifications[1].id = classifyLog'[Len(classifyLog')]
          /\ \A i \in 1..(NotificationCap - 1) :
               pending'.notifications[i + 1] = pending.notifications[i]
          /\ \A i \in 1..NotificationCap : insertedAt[NotificationCap] <= insertedAt[i]]_vars

\* a notification the user had marked as read was evicted from the full list
C4_Witness ==
  /\ lastOp.op = "markAsRead"
  /\ TimesClassified(lastOp.id) = 1
  /\ \A i \in 1..Len(pending.notifications) : pending.notifications[i].id # lastOp.id
  /\ Len(pending.notifications) = NotificationCap

\* C5 as stated: the seen-set holds at most 100 ids in every reachable state.
C5_SeenAtMostCap == Len(processedAlertIds) <= SeenCap

\* C5 amended: the seen-set holds at most 101 ids in every reachable state (at most 102
\* are queued for the next render), and at most 100 once the effects of the render that
\* shows it have run and nothing is queued.
C5_SeenBound ==
  /\ Len(processedAlertIds) <= SeenCap + 1
  /\ Len(pending.processedAlertIds) <= SeenCap + 2
  /\ (effects = {} /\ pending.processedAlertIds = processedAlertIds)
       => Len(processedAlertIds) <= SeenCap

\* the render between the add and the trim: 101 ids
C5_Witness ==
  /\ Len(processedAlertIds) = SeenCap + 1
  /\ effects = {"monitor", "trim"}

\* C6: the id of the alert classified last is in the seen-set queued for the next render
\* (the trim does not drop it), and no alert is classified a second time.
C6_TrimKeepsProcessedHead ==
  /\ classifyLog # <<>> => classifyLog[Len(classifyLog)] \in Range(pending.processedAlertIds)
  /\ \A i, j \in 1..Len(classifyLog) : classifyLog[i] = classifyLog[j] => i = j

\* C7 as stated: of two neighbours in the notification list, the one nearer the front has
\* the greater or equal alert timestamp.
C7_NewestFirstByTimestamp ==
  \A i \in 1..(Len(notifications) - 1) :
    notifications[i].timestamp >= notifications[i + 1].timestamp

\* C7 amended: the list is newest-first by the time of classification: of two neighbours,
\* the one nearer the front was classified later or at the same time (analysis.analyzedAt),
\* and was inserted later.
C7_NewestFirstByClassification ==
  /\ \A i \in 1..(Len(notifications) - 1) :
       notifications[i].analysis.analyzedAt >= notifications[i + 1].analysis.analyzedAt
  /\ \A i \in 1..(Len(pending.notifications) - 1) :
       /\ pending.notifications[i].analysis.analyzedAt
            >= pending.notifications[i + 1].analysis.analyzedAt
       /\ insertedAt[i] > insertedAt[i + 1]

\* an alert with a lower timestamp was classified after one with a higher timestamp
C7_Witness ==
  /\ Len(notifications) >= 2
  /\ notifications[1].timestamp < notifications[2].timestamp
  /\ notifications[1].type = "High Latency Warning"

\* the call handleMarkAsRead(id) made by markAsRead or by viewDetails
ReadStep(id) ==
  \/ markAsRead(id)
  \/ \E i \in 1..Len(notifications) : notifications[i].id = id /\ viewDetails(notifications[i])

\* the notification with its read flag left out
WithoutRead(n) == [f \in DOMAIN n \ {"read"} |-> n[f]]

\* C8: markAsRead(id) and viewDetails(notification) set read on the notifications with
\* that id and change nothing else: length, order, every other notification, every other
\* field and the seen-set stay, and with no matching notification the state stays.
C8_MarkAsReadFrame ==
  [][\A id \in ReadTargets :
       ReadStep(id)
         => /\ Len(pending'.notifications) = Len(pending.notifications)
            /\ \A i \in 1..Len(pending.notifications) :
                 /\ pending'.notifications[i].read
                      = (pending.notifications[i].read \/ pending.notifications[i].id = id)
                 /\ WithoutRead(pending'.notifications[i])
                      = WithoutRead(pending.notifications[i])
            /\ pending' = [pending EXCEPT !.notifications = pending'.notifications]
            /\ UNCHANGED <<renderedVars, dbVars, histVars>>
            /\ (\A i \in 1..Len(pending.notifications) : pending.notifications[i].id # id)
                 => pending' = pending]_vars

\* a notification was marked as read while another one stayed unread
C8_Witness ==
  /\ lastOp.op \in {"markAsRead", "viewDetails"}
  /\ \E i, j \in 1..Len(pending.notifications) :
       /\ pending.notifications[i].id = lastOp.id
       /\ pending.notifications[i].read
       /\ pending.notifications[j].id # lastOp.id
       /\ ~pending.notifications[j].read

\* C9: clearAll empties the notification list when the user confirms and leaves it as it
\* was when the user declines; no step other than a confirmed clearAll empties the list.
C9_ClearAllConfirmed ==
  [][/\ \A confirmed \in BOOLEAN :
          clearAll(confirmed)
            => /\ pending'.notifications
                    = (IF confirmed THEN <<>> ELSE pending.notifications)
               /\ pending' = [pending EXCEPT !.notifications = pending'.notifications]
               /\ UNCHANGED renderedVars
     /\ (pending.notifications # <<>> /\ pending'.notifications = <<>>)
          => clearAll(TRUE)]_vars

\* the user declined and the list is still there
C9_Witness ==
  /\ lastOp.op = "clearAll"
  /\ ~lastOp.confirmed
  /\ pending.notifications # <<>>

C11_LevelsFromFinalScore ==
  analysis # NoAnalysis =>
    LET r == analysis.result IN
    /\ r.impactLevel = (IF r.riskScore >= 80 THEN "critical"
                        ELSE IF r.riskScore >= 60 THEN "high"
                        ELSE IF r.riskScore >= 40 THEN "medium"
                        ELSE "low")
    /\ r.impactLevel # "minimal"
    /\ r.priority = (IF r.riskScore >= 75 THEN "critical"
                     ELSE IF r.riskScore >= 55 THEN "high"
                     ELSE IF r.riskScore >= 35 THEN "medium"
                     ELSE "low")

\* an assessment on a threshold of the priority scale, where the two scales differ
C11_Witness ==
  /\ analysis # NoAnalysis
  /\ analysis.result.riskScore = 75
  /\ analysis.result.priority = "critical"
  /\ analysis.result.impactLevel = "high"

HeldConditions ==
  FactorConditions(analysis.newAlert, analysis.recentAlerts, analysis.systemStats,
                   analysis.trafficData, analysis.blockedAttempts, analysis.at)

\* the recorded call with one argument replaced: its factor conditions and its score
Variation(newAlert, recentAlerts, stats, traffic, blocked) ==
  [base |-> IF newAlert.severity = "high" THEN 25
            ELSE IF newAlert.severity = "medium" THEN 10 ELSE 5,
   held |-> FactorConditions(newAlert, recentAlerts, stats, traffic, blocked, analysis.at),
   riskScore |-> analyzeAlert(newAlert, recentAlerts, stats, traffic, blocked,
                              analysis.at).riskScore]

\* the calls that differ from the recorded one in one argument
Variations ==
  {Variation(a, analysis.recentAlerts, analysis.systemStats, analysis.trafficData,
             analysis.blockedAttempts) : a \in NewAlertInputs}
  \cup {Variation(analysis.newAlert, r, analysis.systemStats, analysis.trafficData,
                  analysis.blockedAttempts) : r \in RecentAlertsInputs}
  \cup {Variation(analysis.newAlert, analysis.recentAlerts,
                  [analysis.systemStats EXCEPT !.activeConnections = c],
                  analysis.trafficData, analysis.blockedAttempts) : c \in {0, 600}}
  \cup {Variation(analysis.newAlert, analysis.recentAlerts, analysis.systemStats, tr,
                  analysis.blockedAttempts) : tr \in TrafficInputs}
  \cup {Variation(analysis.newAlert, analysis.recentAlerts, analysis.systemStats,
                  analysis.trafficData, b) : b \in BlockedInputs}

\* C14: riskScore is the base severity score (25, 10 or 5) plus a non-negative weight for
\* every factor condition that holds, so it is never below the base score, and a call in
\* which the same conditions and more hold never has a lower score.
C14_AdditiveScore ==
  (analysis # NoAnalysis /\ thrown = NoError) =>
    LET r == analysis.result
        base == IF analysis.newAlert.severity = "high" THEN 25
                ELSE IF analysis.newAlert.severity = "medium" THEN 10 ELSE 5
    IN  /\ r.riskScore >= base
        /\ \A f \in HeldConditions : FactorWeight(f) >= 0
        /\ r.riskScore = base + SumWeights(HeldConditions)
        /\ \A v \in Variations :
             (v.base = base /\ HeldConditions \subseteq v.held) => v.riskScore >= r.riskScore

\* a call for which changing one argument makes exactly one more condition hold
C14_Witness ==
  /\ analysis # NoAnalysis
  /\ thrown = NoError
  /\ \E v \in Variations :
       /\ HeldConditions \subseteq v.held
       /\ Cardinality(v.held \ HeldConditions) = 1
       /\ v.riskScore > analysis.result.riskScore

\* C15: for an alert of severity high for which no factor condition holds, analyzeAlert
\* returns riskScore 25, priority low and requiresPopup false, also when recentAlerts
\* holds the alert itself, as the window the hook passes does.
C15_HighSeverityAlone ==
  (analysis # NoAnalysis /\ analysis.newAlert.severity = "high" /\ HeldConditions = {}) =>
    /\ analysis.result.riskScore = 25
    /\ analysis.result.priority = "low"
    /\ analysis.result.requiresPopup = FALSE

\* such a call, with the alert at the head of recentAlerts
C15_Witness ==
  /\ analysis # NoAnalysis
  /\ analysis.newAlert.severity = "high"
  /\ HeldConditions = {}
  /\ Len(analysis.recentAlerts) > 0
  /\ analysis.recentAlerts[1] = analysis.newAlert
  /\ analysis.result.riskScore = 25

\* the alerts of the recorded call's recentAlerts other than the new alert itself
PriorAlerts ==
  IF Len(analysis.recentAlerts) > 0 /\ analysis.recentAlerts[1] = analysis.newAlert
    THEN Tail(analysis.recentAlerts)
    ELSE analysis.recentAlerts

\* scenario C: a high alert analysed with exactly 3 prior alerts, all high and from the
\* last 5 minutes, and no factor condition holding other than the two bursts
ScenarioC ==
  /\ analysis # NoAnalysis
  /\ analysis.newAlert.severity = "high"
  /\ Len(PriorAlerts) = 3
  /\ \A i \in 1..3 : /\ PriorAlerts[i].severity = "high"
                     /\ analysis.at - PriorAlerts[i].timestamp < 300000
  /\ HeldConditions \subseteq {"highSeverityBurst", "alertBurst"}

\* how many alerts of recentAlerts from the last 5 minutes have the type of the new alert
SameTypeRecent ==
  Cardinality({i \in 1..Len(analysis.recentAlerts) :
                 /\ analysis.recentAlerts[i].type = analysis.newAlert.type
                 /\ analysis.at - analysis.recentAlerts[i].timestamp < 300000})

\* C16 as stated: in scenario C the score is 25 + 20 = 45 and the priority is medium,
\* whatever the types of the three prior alerts and whether or not recentAlerts holds the
\* new alert.
C16_ScenarioCAlways45 ==
  ScenarioC => analysis.result.riskScore = 45 /\ analysis.result.priority = "medium"

\* C16, amended: in scenario C the score is 45 and the priority medium when fewer than 3
\* alerts of recentAlerts from the last 5 minutes have the type of the new alert;
\* otherwise the alert burst adds 20, the score is 65, the priority high and a popup is
\* required.
C16_ScenarioCByType ==
  ScenarioC =>
    IF SameTypeRecent < 3
      THEN analysis.result.riskScore = 45 /\ analysis.result.priority = "medium"
      ELSE /\ analysis.result.riskScore = 65
           /\ analysis.result.priority = "high"
           /\ analysis.result.requiresPopup

\* scenario C with prior alerts of another type, recentAlerts holding the new alert
C16_Witness ==
  /\ ScenarioC
  /\ Len(analysis.recentAlerts) = 4
  /\ \A i \in 1..3 : PriorAlerts[i].type # analysis.newAlert.type
  /\ analysis.result.riskScore = 45

\* C17: a call of analyzeAlert with a well-typed newAlert never fails because one of
\* recentAlerts, trafficData and blockedAttempts is empty or absent (undefined).
C17_AbsentContextNeverFails ==
  thrown \notin {"recentAlerts", "trafficData", "blockedAttempts"}

\* the hook has nothing left to run: it is idle, or it is unmounted
Quiet == Mounted => Idle

\* C18: a failed classification does not stop the stream: whenever the hook has nothing
\* left to run, the newest alert of the feed, if it has a type and a message, has been
\* classified and is in the notification list, whatever was delivered before it.
C18_FailureDoesNotPoison ==
  LET feed == AlertsSnapshot(alertsNode) IN
  (Quiet /\ Len(feed) > 0 /\ analyzeAlertThrows(feed[1], {}) = NoError) =>
    /\ feed[1].id \in Range(classifyLog)
    /\ \E i \in 1..Len(notifications) : notifications[i].id = feed[1].id

\* C19: for the alert the hook classified last, the interrupting popup (CriticalAlertModal
\* with an alert) is on screen exactly when its assessment has requiresPopup = true.
C19_PopupExactlyWhenRequired ==
  analysis # NoAnalysis =>
    (CriticalAlertModal(criticalAlert) <=> analysis.result.requiresPopup)

\* the fields of the RiskAssessment as formatAlertForDisplay must show them: riskScore and
\* estimatedDowntimeRisk (held in tenths) as the nearest integer, the others as they are
RoundedAssessment(assessment, shown) ==
  /\ \A f \in {"priority", "impactLevel", "requiresPopup", "reasons", "recommendation",
               "affectedSystems", "riskScore"} : shown[f] = assessment[f]
  /\ 10 * shown.estimatedDowntimeRisk - assessment.estimatedDowntimeRisk <= 5
  /\ assessment.estimatedDowntimeRisk - 10 * shown.estimatedDowntimeRisk < 5

\* the result of the recorded call of formatAlertForDisplay has the fields of the alert
\* unchanged and the fields of the assessment, rounded, under analysis
FormatKeepsFields ==
  formatted # NoFormat =>
    /\ DOMAIN formatted.result = DOMAIN formatted.alert \cup {"analysis"}
    /\ \A f \in DOMAIN formatted.alert : formatted.result[f] = formatted.alert[f]
    /\ RoundedAssessment(formatted.analysis, formatted.result.analysis)

\* the step formats the (alert, analysis) that was formatted last
FormatsAgain ==
  /\ formatAlertForDisplayCall
  /\ formatted # NoFormat
  /\ formatted.alert = analysis.newAlert
  /\ formatted.analysis = analysis.result

\* C20 as stated: formatAlertForDisplay keeps the fields of the alert, shows the fields of
\* the assessment with riskScore and estimatedDowntimeRisk rounded, and formatting the
\* same (alert, analysis) twice gives equal results.
C20_FormatTwiceEqual ==
  /\ []FormatKeepsFields
  /\ [][FormatsAgain => formatted'.result = formatted.result]_vars

\* C20, amended: formatAlertForDisplay keeps the fields of the alert and shows the fields
\* of the assessment with riskScore and estimatedDowntimeRisk rounded, and adds
\* analysis.analyzedAt, the time of the call; formatting the same (alert, analysis) twice
\* gives results that are equal in every field other than analysis.analyzedAt.
C20_FormatTwiceEqualButTime ==
  /\ []FormatKeepsFields
  /\ [](formatted # NoFormat =>
          /\ DOMAIN formatted.result.analysis = DOMAIN formatted.analysis \cup {"analyzedAt"}
          /\ formatted.result.analysis.analyzedAt = formatted.at)
  /\ [][FormatsAgain =>
          /\ \A f \in DOMAIN formatted.alert : formatted'.result[f] = formatted.result[f]
          /\ \A f \in DOMAIN formatted.analysis :
               formatted'.result.analysis[f] = formatted.result.analysis[f]]_vars

\* an assessment formatted after the clock advanced past the time it was made
C20_Witness ==
  /\ formatted # NoFormat
  /\ formatted.alert = analysis.newAlert
  /\ formatted.analysis = analysis.result
  /\ formatted.result.analysis.analyzedAt > analysis.at
  /\ formatted.result.analysis.priority # formatted.result.analysis.impactLevel

\* a traffic sample with no resource condition: the three readings, where present, at 0
CalmSample(sample) ==
  [f \in DOMAIN sample |->
     IF f \in {"cpu_usage", "memory_usage", "packet_loss"} THEN 0 ELSE sample[f]]

\* how many of the three resource conditions hold for a traffic sample
ResourceConditions(sample) ==
  Cardinality({f \in {"cpu_usage", "memory_usage", "packet_loss"} :
                 FieldAbove(sample, f, IF f = "packet_loss" THEN 5 ELSE 90)})

\* C21: resource exhaustion adds exactly 10 for each of the conditions cpu_usage > 90,
\* memory_usage > 90 and packet_loss > 5 of the latest traffic sample, at most 30 together:
\* the score of a call is 10 per such condition above the score of the same call with the
\* three readings below their thresholds.
C21_ResourceAddsTenEach ==
  (analysis # NoAnalysis /\ Len(analysis.trafficData) > 0) =>
    LET traffic == analysis.trafficData
        calm == [traffic EXCEPT ![1] = CalmSample(traffic[1])]
        without == analyzeAlert(analysis.newAlert, analysis.recentAlerts,
                                analysis.systemStats, calm, analysis.blockedAttempts,
                                analysis.at).riskScore
    IN  /\ analysis.result.riskScore - without = 10 * ResourceConditions(traffic[1])
        /\ analysis.result.riskScore - without <= 30

\* C22: in every classification the hook triggers, the traffic window passed to the
\* analyzer is in newest-first order, so the sample the analyzer takes as the latest,
\* trafficData[0], is the most recent one.
C22_LatestTrafficIsNewest ==
  (analysis # NoAnalysis /\ Len(analysis.trafficData) > 0) =>
    \A i \in 1..Len(analysis.trafficData) :
      analysis.trafficData[1].timestamp >= analysis.trafficData[i].timestamp

\* the reasons analyzeAlert pushes for the critical type, the system-wide impact, the
\* same-type alert burst, the resource analysis and the coordinated attack
ReasonsOfOtherFactors ==
  {"Alert type classified as critical", "Indicates potential system-wide impact",
   "Alert burst detected", "Resources critical", "Coordinated attack pattern detected"}

\* C23: whenever the high-severity burst factor fires (3 or more alerts of recentAlerts
\* with severity high within the 5-minute window), the reasons of the assessment hold a
\* reason for it, that is, an entry that is not the reason of another factor.
C23_HighSeverityBurstHasReason ==
  (analysis # NoAnalysis /\ "highSeverityBurst" \in HeldConditions) =>
    \E i \in 1..Len(analysis.result.reasons) :
      analysis.result.reasons[i] \notin ReasonsOfOtherFactors

\* C24: in every reachable state of the hook no two notifications of the list have the
\* same alert id.
C24_NotificationIdsDistinct ==
  \A i, j \in 1..Len(notifications) :
    notifications[i].id = notifications[j].id => i = j

ReadKept(old, new, k) ==
  /\ Len(new) = Min(Len(old) + k, NotificationCap)
  /\ \A i \in 1..Len(old) :
       i + k <= Len(new) =>
         /\ WithoutRead(new[i + k]) = WithoutRead(old[i])
         /\ old[i].read => new[i + k].read

\* C26: the read flag only moves from false to true. In the state of the hook every step
\* either empties the list or keeps read = true on every notification that stays, and a
\* notification put in front has read = false; the rendered list likewise never shows a
\* notification going from read to unread.
C26_ReadOnlyRises ==
  [][/\ \/ pending'.notifications = <<>>
        \/ \E k \in {0, 1} :
             /\ ReadKept(pending.notifications, pending'.notifications, k)
             /\ \A j \in 1..k : pending'.notifications[j].read = FALSE
     /\ \/ notifications' = <<>>
        \/ \E k \in {0, 1} : ReadKept(notifications, notifications', k)]_vars

\* a notification that was marked as read and stayed read when a later alert was put in
\* front of it
C26_Witness ==
  /\ Len(notifications) > 1
  /\ lastOp.op \in {"markAsRead", "viewDetails"}
  /\ notifications[1].read = FALSE
  /\ notifications[1].id = classifyLog[Len(classifyLog)]
  /\ notifications[2].read
  /\ notifications[2].id = lastOp.id

\* C27: a confirmed clearAll leaves the seen-set as it is, and as long as clearAll is the
\* last operation of the user the emptied list gets an entry only by a run of the first
\* effect for a head alert whose id is not in the seen-set: updates of traffic, blocked
\* attempts and stats do not bring back the alerts already seen.
C27_ClearAllKeepsSeenSet ==
  [][/\ clearAll(TRUE) =>
          /\ pending'.processedAlertIds = pending.processedAlertIds
          /\ processedAlertIds' = processedAlertIds
          /\ pending'.notifications = <<>>
     /\ (/\ lastOp.op = "clearAll"
         /\ lastOp.confirmed
         /\ pending.notifications = <<>>
         /\ pending'.notifications # <<>>)
          => /\ MonitorStep
             /\ Len(alerts) > 0
             /\ alerts[1].id \notin Range(processedAlertIds)]_vars

\* after a confirmed clearAll a traffic sample arrived and was rendered, the effects ran
\* with the head alert in the seen-set, and the list is still empty
C27_Witness ==
  /\ lastOp.op = "clearAll"
  /\ lastOp.confirmed
  /\ Idle
  /\ Len(trafficData) > 0
  /\ Len(alerts) > 0
  /\ alerts[1].id \in Range(processedAlertIds)
  /\ notifications = <<>>
  /\ Len(classifyLog) > 0

\* the alerts behind the head of the recorded call's recentAlerts that lie within the
\* 5-minute window at the time of the call
OthersInWindow ==
  {i \in 2..Len(analysis.recentAlerts) :
     analysis.at - analysis.recentAlerts[i].timestamp < 300000}

\* C28: in every classification the hook triggers, the new alert is the head of the
\* recentAlerts window, so it counts towards the bursts: the same-type burst fires as
\* soon as two other alerts of its type are within the 5-minute window, and with the new
\* alert of severity high the high-severity burst holds as soon as two other high alerts
\* are within it.
C28_WindowHoldsNewAlert ==
  analysis # NoAnalysis =>
    /\ Len(analysis.recentAlerts) > 0
    /\ analysis.recentAlerts[1] = analysis.newAlert
    /\ Cardinality({i \in OthersInWindow :
                      analysis.recentAlerts[i].type = analysis.newAlert.type}) >= 2
         => "Alert burst detected" \in Range(analysis.result.reasons)
    /\ (/\ analysis.newAlert.severity = "high"
        /\ Cardinality({i \in OthersInWindow :
                          analysis.recentAlerts[i].severity = "high"}) >= 2)
         => /\ "highSeverityBurst" \in HeldConditions
            /\ analysis.result.riskScore >= 25 + 20

\* a classification with exactly two other alerts of the new alert's type in the window,
\* for which the same-type burst fired
C28_Witness ==
  /\ analysis # NoAnalysis
  /\ Len(analysis.recentAlerts) = 3
  /\ analysis.recentAlerts[1] = analysis.newAlert
  /\ Cardinality({i \in OthersInWindow :
                    analysis.recentAlerts[i].type = analysis.newAlert.type}) = 2
  /\ "Alert burst detected" \in Range(analysis.result.reasons)

\* the fields of a traffic sample that analyzeSystemResources and calculateRiskFactors
\* compare with the resource thresholds
ResourceReadings == {"cpu_usage", "memory_usage", "packet_loss"}

\* C29: a classification through the dashboard's traffic feed has no resource-exhaustion
\* factor: the samples handed to the classifier carry no cpu_usage, memory_usage or
\* packet_loss, resourceAnalysis.critical is false (no such reason), affectedSystems has
\* no 'CPU Resources', 'Memory Resources' or 'Network', no resource condition adds to
\* the score, and estimatedDowntimeRisk is the score term alone, without the +30.
C29_FeedHasNoResourceFactor ==
  analysis # NoAnalysis =>
    /\ \A i \in 1..Len(analysis.trafficData) :
         DOMAIN analysis.trafficData[i] \cap ResourceReadings = {}
    /\ "Resources critical" \notin Range(analysis.result.reasons)
    /\ Range(analysis.result.affectedSystems)
         \cap {"CPU Resources", "Memory Resources", "Network"} = {}
    /\ HeldConditions \cap {"highCpu", "highMemory", "packetLoss"} = {}
    /\ analysis.result.estimatedDowntimeRisk = Min(analysis.result.riskScore * 6, 950)

\* a classification whose latest sample, as stored in active_traffic, has its three
\* readings above the thresholds
C29_Witness ==
  /\ analysis # NoAnalysis
  /\ Len(analysis.trafficData) > 0
  /\ \E i \in 1..Len(trafficNode) :
       /\ trafficNode[i].id = analysis.trafficData[1].id
       /\ trafficNode[i].timestamp = analysis.trafficData[1].timestamp
       /\ ResourceConditions(trafficNode[i]) = 3

(***************************************************************************)
(* Several dashboard sessions on one database: the counters of            *)
(* system_stats are read with get and written back with set, two requests *)
(* between which other sessions' writes may land.                         *)
(***************************************************************************)
\* generator calls started in the stats scenario
StatsEvents == 3

InitStats ==
  /\ InitWarm(WarmNone)
  /\ left = [events |-> StatsEvents, latency |-> 0, queued |-> 0]

\* the call of session s moves to position pc, holding the snapshot stats
CallAt(s, op, pc, stats) == [calls EXCEPT ![s] = [op |-> op, pc |-> pc, stats |-> stats]]

\* await push(alertsRef, newAlert)
generateRandomAlertPush(s, kind) ==
  /\ calls[s].pc = "idle"
  /\ left.events > 0
  /\ now' = now + ClockStep
  /\ nextKey' = nextKey + 1
  /\ alertsNode' = PushAlert(alertsNode,
                     NewAlert(nextKey + 1, kind.type,
                              "Abnormal traffic spike detected from single source IP",
                              kind.severity, now + ClockStep))
  /\ calls' = CallAt(s, "generateRandomAlert", "pushed", InitialStats)
  /\ left' = [left EXCEPT !.events = @ - 1]
  /\ UNCHANGED <<trafficNode, blockedNode, statsNode, latency, renderedVars, pending,
                 effects, histVars, lastOp>>

\* const statsSnapshot = await get(systemStatsRef)
generateRandomAlertGet(s) ==
  /\ calls[s].op = "generateRandomAlert"
  /\ calls[s].pc = "pushed"
  /\ calls' = CallAt(s, "generateRandomAlert", "read", statsNode)
  /\ UNCHANGED <<now, nextKey, dbVars, latency, renderedVars, pending, effects, histVars,
                 lastOp, left>>

\* await set(systemStatsRef, {...currentStats, alertsToday: currentStats.alertsToday + 1})
generateRandomAlertSet(s) ==
  /\ calls[s].op = "generateRandomAlert"
  /\ calls[s].pc = "read"
  /\ statsNode' = [calls[s].stats EXCEPT !.alertsToday = @ + 1]
  /\ calls' = [calls EXCEPT ![s] = NoCall]
  /\ UNCHANGED <<now, nextKey, alertsNode, trafficNode, blockedNode, latency, renderedVars,
                 pending, effects, histVars, lastOp, left>>

\* await push(blockedAttemptsRef, newAttempt)
generateRandomBlockedAttemptPush(s) ==
  /\ calls[s].pc = "idle"
  /\ left.events > 0
  /\ now' = now + ClockStep
  /\ blockedNode' = SliceTail(Append(blockedNode,
                       [id |-> Len(blockedNode) + 1, timestamp |-> now + ClockStep]),
                       LimitBlocked)
  /\ calls' = CallAt(s, "generateRandomBlockedAttempt", "pushed", InitialStats)
  /\ left' = [left EXCEPT !.events = @ - 1]
  /\ UNCHANGED <<nextKey, alertsNode, trafficNode, statsNode, latency, renderedVars,
                 pending, effects, histVars, lastOp>>

\* const statsSnapshot = await get(systemStatsRef)
generateRandomBlockedAttemptGet(s) ==
  /\ calls[s].op = "generateRandomBlockedAttempt"
  /\ calls[s].pc = "pushed"
  /\ calls' = CallAt(s, "generateRandomBlockedAttempt", "read", statsNode)
  /\ UNCHANGED <<now, nextKey, dbVars, latency, renderedVars, pending, effects, histVars,
                 lastOp, left>>

\* await set(systemStatsRef, {...currentStats, blockedAttempts: ... + 1})
generateRandomBlockedAttemptSet(s) ==
  /\ calls[s].op = "generateRandomBlockedAttempt"
  /\ calls[s].pc = "read"
  /\ statsNode' = [calls[s].stats EXCEPT !.blockedAttempts = @ + 1]
  /\ calls' = [calls EXCEPT ![s] = NoCall]
  /\ UNCHANGED <<now, nextKey, alertsNode, trafficNode, blockedNode, latency, renderedVars,
                 pending, effects, histVars, lastOp, left>>

\* the polling tick with tick % 20 === 0: const statsSnapshot = await get(systemStatsRef)
growStatsGet(s) ==
  /\ calls[s].pc = "idle"
  /\ left.events > 0
  /\ calls' = CallAt(s, "growStats", "read", statsNode)
  /\ left' = [left EXCEPT !.events = @ - 1]
  /\ UNCHANGED <<now, nextKey, dbVars, latency, renderedVars, pending, effects, histVars,
                 lastOp>>

\* await set(systemStatsRef, {...currentStats, totalUsers: ... + (Math.random() > 0.95 ? 1 : 0)})
growStatsSet(s, grown) ==
  /\ calls[s].op = "growStats"
  /\ calls[s].pc = "read"
  /\ statsNode' = [calls[s].stats EXCEPT !.totalUsers = @ + grown]
  /\ calls' = [calls EXCEPT ![s] = NoCall]
  /\ UNCHANGED <<now, nextKey, alertsNode, trafficNode, blockedNode, latency, renderedVars,
                 pending, effects, histVars, lastOp, left>>

NextStats ==
  \/ \E s \in 1..Sessions, kind \in AlertKinds : generateRandomAlertPush(s, kind)
  \/ \E s \in 1..Sessions : generateRandomAlertGet(s)
  \/ \E s \in 1..Sessions : generateRandomAlertSet(s)
  \/ \E s \in 1..Sessions : generateRandomBlockedAttemptPush(s)
  \/ \E s \in 1..Sessions : generateRandomBlockedAttemptGet(s)
  \/ \E s \in 1..Sessions : generateRandomBlockedAttemptSet(s)
  \/ \E s \in 1..Sessions : growStatsGet(s)
  \/ \E s \in 1..Sessions, grown \in {0, 1} : growStatsSet(s, grown)

SpecStats == InitStats /\ [][NextStats]_vars

\* no generator call is between its push and its set
NoCallInFlight == \A s \in 1..Sessions : calls[s].pc = "idle"

\* C30: each alert pushed by generateRandomAlert raises system_stats.alertsToday by one,
\* also with several sessions writing system_stats: once no call is in flight, the counter
\* has grown by the number of alerts pushed.
C30_NoLostUpdate ==
  NoCallInFlight =>
    statsNode.alertsToday - WarmStats(WarmNone).alertsToday = nextKey - WarmNone

=========================================================================
